---- MODULE Spec2Model ----
(***************************************************************************)
(* Model of the ask-and-route pipeline of ask.js: POST /ask with its       *)
(* classifier adapter (classifyStores), the sequential retrieval fan-out,  *)
(* the answer merge, and the fire-and-forget persistence of the session    *)
(* file and the provider logs.                                             *)
(*                                                                         *)
(* Strings that the code takes apart or puts together are sequences of     *)
(* tokens: an e-mail is a sequence of characters, a question a sequence of *)
(* words and whitespace runs, an answer a sequence of text pieces, the raw *)
(* text of the classification service a sequence of lexical tokens.        *)
(* <<>> is the empty string, which JavaScript treats as falsy, so it also  *)
(* stands for an absent (undefined / null) string.                         *)
(***************************************************************************)
EXTENDS Integers, Sequences, FiniteSets, TLC

\* ------------------------------------------------------------------ bounds
\* Longest raw text of the classification service, in tokens.
MaxTxtLen == 4
\* Longest stores list inside a classification object.
MaxPicked == 2

\* Most words of a question given to generateSessionName.
MaxWords == 12

\* --------------------------------------------------------- string helpers
RECURSIVE Flatten(_)
Flatten(ss) == IF ss = <<>> THEN <<>> ELSE Head(ss) \o Flatten(Tail(ss))

RECURSIVE SeqsUpTo(_, _)
SeqsUpTo(S, n) ==
    IF n = 0 THEN {<<>>}
    ELSE LET shorter == SeqsUpTo(S, n - 1)
         IN  shorter \cup {Append(s, x) : s \in shorter, x \in S}

Range(s) == {s[i] : i \in DOMAIN s}

\* Whitespace tokens: a single blank and a wider run (several blanks, a tab).
WsTokens == {" ", "  "}
IsWs(t) == t \in WsTokens

RECURSIVE TrimLeft(_)
TrimLeft(s) == IF s # <<>> /\ IsWs(Head(s)) THEN TrimLeft(Tail(s)) ELSE s

RECURSIVE TrimRight(_)
TrimRight(s) ==
    IF s # <<>> /\ IsWs(s[Len(s)]) THEN TrimRight(SubSeq(s, 1, Len(s) - 1)) ELSE s

\* String.prototype.trim
Trim(s) == TrimRight(TrimLeft(s))

\* The characters the sanitising regex /[^a-zA-Z0-9@._-]/g keeps.
SafeChars == {"a", "b", "c", "p", "q", "s", "1", "2", "@", ".", "_", "-", "unknown"}

\* email.replace(/[^a-zA-Z0-9@._-]/g, "_")
Sanitize(email) == [i \in DOMAIN email |-> IF email[i] \in SafeChars THEN email[i] ELSE "_"]

\* ------------------------------------------------------------- getSessionFile
getSessionFile(email, sessionId) == Sanitize(email) \o <<"_", "_">> \o sessionId

\* -------------------------------------------------------- generateSessionName
\* question.trim().split(/\s+/): the maximal runs of non-whitespace.  On the
\* empty string split yields [""], one (empty) word.
Words(q) == SelectSeq(Trim(q), LAMBDA t : ~IsWs(t))

RECURSIVE JoinWith(_, _)
JoinWith(ws, sep) ==
    IF ws = <<>> THEN <<>>
    ELSE IF Len(ws) = 1 THEN <<ws[1]>>
    ELSE <<ws[1], sep>> \o JoinWith(Tail(ws), sep)

NewSessionName == <<"New Session">>

\* The name of a short question left as it came, whitespace at its ends kept.
generateSessionNameVerbatim(question) ==
    IF question = <<>> THEN NewSessionName
    ELSE IF Len(Words(question)) <= 10 THEN question
    ELSE JoinWith(SubSeq(Words(question), 1, 10), " ") \o <<"...">>

generateSessionName(question) ==
    IF question = <<>> THEN NewSessionName
    ELSE IF Len(Words(question)) <= 10 THEN Trim(question)
    ELSE JoinWith(SubSeq(Words(question), 1, 10), " ") \o <<"...">>

\* ------------------------------------------------------------ accounts
\* Owner e-mails: U1 has two accessible stores, U0 an account without stores,
\* UX no account at all.
U1 == <<"a">>
U0 == <<"b">>
UX == <<"c">>

\* Provider (department) accounts owning the stores.
P1 == <<"p", "1">>
P2 == <<"p", "2">>

\* Store names: two real ones and one no account can access.
AllNames == {"adm", "lib", "zzz"}

NoDept == [found |-> FALSE, storeName |-> "", accountEmail |-> <<>>]

\* The students directory (written by routes outside this pipeline, never by
\* it).  readStudent returns null for a missing or unreadable file.
readStudent(email) ==
    IF email = U1
      THEN [found |-> TRUE,
            accessibleStores |->
               << [found |-> TRUE, storeName |-> "adm", accountEmail |-> P1],
                  [found |-> TRUE, storeName |-> "lib", accountEmail |-> P2] >>]
    ELSE IF email = U0
      THEN [found |-> TRUE, accessibleStores |-> <<>>]
    ELSE [found |-> FALSE, accessibleStores |-> <<>>]

\* accessible.map(s => s.storeName)
storeNamesOf(accessible) == [i \in DOMAIN accessible |-> accessible[i].storeName]

\* accessible.find(x => x.storeName === store); NoDept when find gives undefined
findDept(accessible, store) ==
    IF \E i \in DOMAIN accessible : accessible[i].storeName = store
      THEN accessible[CHOOSE i \in DOMAIN accessible :
                         /\ accessible[i].storeName = store
                         /\ \A j \in 1..(i - 1) : accessible[j].storeName # store]
      ELSE NoDept

\* ---------------------------------------------------------- questions
Q1 == <<"when", " ", "open">>
QLib == <<"library", " ", "hours">>

\* split_questions: store name -> rewritten question, <<>> where the object
\* has no (or an empty) entry for the store.
NoSplit == [n \in AllNames |-> <<>>]
LibSplit == [n \in AllNames |-> IF n = "lib" THEN QLib ELSE <<>>]


Frag == [text |-> "parking", reason |-> "no department"]
Unans == {<<>>, <<Frag>>}

\* The split_questions / unanswered members a classification object comes with.
Members == {<<NoSplit, <<>>>>, <<LibSplit, <<>>>>, <<NoSplit, <<Frag>>>>}

\* --------------------------------------------- classification values
\* A parsed JSON value as the handler reads it.  top: "null" (property access
\* throws), "prim" (a number, boolean, string or array: every property is
\* undefined) or "obj".  storesKind: "arr" (an array, items in stores),
\* "falsy" (missing, null, 0, "", false) or "noniter" (a truthy value that
\* has no length and is not iterable: a number, an object).
Class(top, kind, stores, split, unanswered) ==
    [top |-> top, storesKind |-> kind, stores |-> stores,
     split |-> split, unanswered |-> unanswered]

\* { stores: stores, split_questions: {}, unanswered: [] }
Fallback(stores) == Class("obj", "arr", stores, NoSplit, <<>>)
\* { stores: [], split_questions: {}, unanswered: [] }
EmptyClass == Class("obj", "arr", <<>>, NoSplit, <<>>)
NullValue == Class("null", "falsy", <<>>, NoSplit, <<>>)
PrimValue == Class("prim", "falsy", <<>>, NoSplit, <<>>)
EmptyObject == Class("obj", "falsy", <<>>, NoSplit, <<>>)

\* The objects a member list (token "P") of the raw text can denote.
Payloads ==
    {Class("obj", "arr", s, m[1], m[2]) :
        s \in SeqsUpTo(AllNames, MaxPicked), m \in Members}
    \cup {Class("obj", k, <<>>, NoSplit, u) : k \in {"falsy", "noniter"}, u \in Unans}

\* ------------------------------------------------ raw text of the service
\* Lexical tokens: braces, a member list "P", the literals null ("n") and a
\* number ("5"), junk that is not JSON ("j"), and a blank.
TxtTokens == {"{", "}", "P", "n", "5", "j", " "}
Texts == SeqsUpTo(TxtTokens, MaxTxtLen)

\* JSON.parse: insignificant whitespace between tokens is skipped.
JsonCore(raw) == SelectSeq(raw, LAMBDA t : t # " ")

\* The text holds an object around a member list: only then can what the
\* member list denotes matter to a reader of the text.
HoldsObject(t) ==
    \E i \in 1..(Len(JsonCore(t)) - 2) : SubSeq(JsonCore(t), i, i + 2) = <<"{", "P", "}">>

\* What model.generateContent can do: throw, or return a text in which the
\* member list denotes the object payload (every payload for a text that
\* holds an object, an arbitrary one for the others).
ServiceOutcomes ==
    {[kind |-> "throw", txt |-> <<>>, payload |-> EmptyClass]}
    \cup {[kind |-> "text", txt |-> t, payload |-> EmptyClass] :
             t \in {x \in Texts : ~HoldsObject(x)}}
    \cup {[kind |-> "text", txt |-> t, payload |-> p] :
             t \in {x \in Texts : HoldsObject(x)}, p \in Payloads}

JsonParses(raw) ==
    JsonCore(raw) \in {<<"n">>, <<"5">>, <<"{", "}">>, <<"{", "P", "}">>}

JsonValue(raw, payload) ==
    LET core == JsonCore(raw)
    IN  IF core = <<"n">> THEN NullValue
        ELSE IF core = <<"5">> THEN PrimValue
        ELSE IF core = <<"{", "}">> THEN EmptyObject
        ELSE payload

\* String.prototype.indexOf / lastIndexOf, 0-based, -1 when absent.
IndexOf(s, t) ==
    IF t \in Range(s)
      THEN (CHOOSE i \in DOMAIN s : s[i] = t /\ \A j \in 1..(i - 1) : s[j] # t) - 1
      ELSE -1

LastIndexOf(s, t) ==
    IF t \in Range(s)
      THEN (CHOOSE i \in DOMAIN s : s[i] = t /\ \A j \in (i + 1)..Len(s) : s[j] # t) - 1
      ELSE -1

\* String.prototype.slice(from, to) for 0 <= from, to <= length.
Slice(s, from, to) == IF to <= from THEN <<>> ELSE SubSeq(s, from + 1, to)

\* classifyStores with its last line returning no store at all.
classifyStoresEmptyOnFailure(geminiKey, stores, outcome) ==
    IF ~geminiKey THEN Fallback(stores)
    ELSE IF outcome.kind = "throw" THEN Fallback(stores)
    ELSE IF outcome.txt = <<>> THEN EmptyClass
    ELSE LET raw == Trim(outcome.txt)
             start == IndexOf(raw, "{")
             end == LastIndexOf(raw, "}")
             sub == Slice(raw, start, end + 1)
         IN  IF JsonParses(raw) THEN JsonValue(raw, outcome.payload)
             ELSE IF start # -1 /\ end # -1 /\ JsonParses(sub)
               THEN JsonValue(sub, outcome.payload)
             ELSE EmptyClass

\* ------------------------------------------------------------ classifyStores
\* geminiKey: whether the university has a key.  outcome: what the service
\* does when it is called.
classifyStores(geminiKey, stores, outcome) ==
    IF ~geminiKey THEN Fallback(stores)
    ELSE IF outcome.kind = "throw" THEN Fallback(stores)
    ELSE IF outcome.txt = <<>> THEN EmptyClass
    ELSE LET raw == Trim(outcome.txt)
             start == IndexOf(raw, "{")
             end == LastIndexOf(raw, "}")
             sub == Slice(raw, start, end + 1)
         IN  IF JsonParses(raw) THEN JsonValue(raw, outcome.payload)
             ELSE IF start # -1 /\ end # -1 /\ JsonParses(sub)
               THEN JsonValue(sub, outcome.payload)
             ELSE Fallback(stores)

\* The classification results each key / offered list can lead to, computed
\* once: classifyStores applied to every outcome of the service.
OfferedLists == {storeNamesOf(readStudent(e).accessibleStores) : e \in {U1, U0}}

ClassifyTable ==
    [k \in BOOLEAN |->
        [s \in OfferedLists |-> {classifyStores(k, s, o) : o \in ServiceOutcomes}]]

\* ------------------------------------------------------ retrieval service
\* What RAGService.askQuestion can do: throw, resolve to null, to an object
\* with success false, to a success without data, or to a success whose data
\* holds response_text (<<>>: empty or missing) and grounding chunks (each
\* the retrievedContext text of the chunk, "" for a chunk without one).
OkResults ==
    { [kind |-> "ok", text |-> <<>>,     chunks |-> <<>>],
      [kind |-> "ok", text |-> <<"a1">>, chunks |-> <<"g1", "", "g2">>],
      [kind |-> "ok", text |-> <<"a2">>, chunks |-> <<"g3">>] }

RagOutcomes ==
    {[kind |-> k, text |-> <<>>, chunks |-> <<>>] : k \in {"throw", "null", "fail", "nodata"}}
    \cup OkResults

\* !ragResp || !ragResp.success || !ragResp.data
ragFailed(ragResp) == ragResp.kind \in {"null", "fail", "nodata"}

\* collectGrounding without the test on ctx.text.
collectEveryChunk(groundingChunks) == groundingChunks

\* for (const chunk of groundingChunks) { if (ctx.text) allGrounding.push(ctx.text) }
collectGrounding(groundingChunks) == SelectSeq(groundingChunks, LAMBDA t : t # "")

\* ----------------------------------------------------------------- merge
\* `**${r.store}**:\n${r.answerText}`
section(r) == <<"**", r.store, "**:\n">> \o r.answerText

\* mergeAnswers without the single-result case.
mergeAlwaysLabelled(ragResults) ==
    Flatten(JoinWith([i \in DOMAIN ragResults |-> section(ragResults[i])], <<"\n\n">>))

mergeAnswers(ragResults) ==
    IF Len(ragResults) = 1 THEN ragResults[1].answerText
    ELSE Flatten(JoinWith([i \in DOMAIN ragResults |-> section(ragResults[i])], <<"\n\n">>))

\* ------------------------------------------------------ fixed answer texts
NoStoresAvailable == <<"No RAG stores available for your account.">>
NoDepartment == <<"Sorry, none of the departments can answer this.">>
Apology == <<"Sorry we didn't find any information related to this.">>

\* ------------------------------------------------------------------ state
VARIABLES
    pc,            \* request -> where its control flow is suspended
    req,           \* request -> the handler's locals and closure variables
    res,           \* request -> the response object (res.headersSent, body)
    hist,          \* request -> what it has done so far, in order (history)
    sessionFiles,  \* chat_sessions: path -> session document
    providerLogs,  \* provider_questions: path -> list of log documents
    cls,           \* the classifier adapter applied on its own (SpecClassify)
    fn             \* a store function applied on its own: its input and result

vars == <<pc, req, res, hist, sessionFiles, providerLogs, cls, fn>>

\* The requests of one run.
Reqs == {1}

\* A session id the client sends.
S1 == <<"s", "1">>

\* "session_" + Date.now() + "_" + Math.random()...: fresh for every request.
mintSessionId(r) == <<"session", "_", ToString(r)>>

Put(f, k, v) == [x \in (DOMAIN f) \cup {k} |-> IF x = k THEN v ELSE f[x]]

NoFiles == [x \in {} |-> <<>>]

\* ---------------------------------------------------------------- documents
Message(question, answer, storesUsed, grounding, optional, unresolvedParts, searchedIn) ==
    [role |-> "assistant", question |-> question, answer |-> answer,
     storesUsed |-> storesUsed, grounding |-> grounding, optional |-> optional,
     unresolvedParts |-> unresolvedParts, searchedIn |-> searchedIn]

NoMessage == Message(<<>>, <<>>, <<>>, <<>>, {}, <<>>, <<>>)

Session(sessionId, sessionName, email, messages) ==
    [sessionId |-> sessionId, sessionName |-> sessionName, email |-> email,
     messages |-> messages]

NoSession == Session(<<>>, <<>>, <<>>, <<>>)

\* response: [isNull, text]; grounding: the chunks, when the entry has them.
LogDoc(provider, user, store, question, isNull, response, grounding) ==
    [provider_email |-> provider, user_email |-> user, store_name |-> store,
     question |-> question, responseIsNull |-> isNull, response |-> response,
     grounding |-> grounding]

UnknownProvider == <<"unknown">>

\* res.status(...).json(...): fields names the members of the body.
Body(status, fields, sessionId, answer, storesUsed, grounding, unanswered, searchedIn) ==
    [sent |-> TRUE, status |-> status, fields |-> fields, sessionId |-> sessionId,
     answer |-> answer, storesUsed |-> storesUsed, grounding |-> grounding,
     unanswered |-> unanswered, searchedIn |-> searchedIn]

NotSent == [Body(0, {}, <<>>, <<>>, <<>>, <<>>, <<>>, <<>>) EXCEPT !.sent = FALSE]

ErrorBody(status) == Body(status, {"error"}, <<>>, <<>>, <<>>, <<>>, <<>>, <<>>)

\* History events.
Ev(name, pos) == [ev |-> name, pos |-> pos]

\* ------------------------------------------------------------ request locals
NoReq ==
    [email |-> <<>>, question |-> <<>>, sessionId |-> <<>>,
     isNewSession |-> FALSE, sessionName |-> <<>>, accessible |-> <<>>,
     geminiKey |-> FALSE, classified |-> FALSE, classification |-> EmptyClass,
     predictedStores |-> <<>>, splitQuestions |-> NoSplit, unanswered |-> <<>>,
     idx |-> 0, inflight |-> {}, calls |-> <<>>, outcomes |-> <<>>,
     ragResults |-> <<>>, allGrounding |-> <<>>,
     branch |-> "", body |-> NotSent, messageObj |-> NoMessage, logs |-> <<>>,
     plan |-> <<>>, snapSession |-> NoSession, snapLog |-> <<>>,
     bgError |-> FALSE, after |-> {}, logged |-> <<>>]

FnIdle == [input |-> <<>>, result |-> <<>>, done |-> FALSE]

ClsIdle == [geminiKey |-> FALSE, stores |-> <<>>,
            outcome |-> [kind |-> "throw", txt |-> <<>>, payload |-> EmptyClass],
            result |-> EmptyClass, done |-> FALSE]

\* A session left by an earlier request of U1 that carried the id S1: its file
\* was missing, so appendMessageToSessionFile made it from the message.
QOld == <<"where", " ", "enrol">>
PriorMessage == Message(QOld, <<"a0">>, <<"adm">>, <<>>, {}, <<>>, <<>>)
PriorSession == Session(S1, QOld, U1, <<PriorMessage>>)
PriorFiles == [f \in {getSessionFile(U1, S1)} |-> PriorSession]

\* The stores start empty, or hold what an earlier request left.
InitialSessionFiles == {NoFiles, PriorFiles}

Init ==
    /\ pc = [r \in Reqs |-> "idle"]
    /\ req = [r \in Reqs |-> NoReq]
    /\ res = [r \in Reqs |-> NotSent]
    /\ hist = [r \in Reqs |-> <<>>]
    /\ sessionFiles \in InitialSessionFiles
    /\ providerLogs = NoFiles
    /\ cls = ClsIdle
    /\ fn = FnIdle

\* ------------------------------------------------- POST /ask: pieces
\* The validation with the question forgotten.
invalidRequestEmailOnly(email, question) == email = <<>>

\* !email || !question
invalidRequest(email, question) == email = <<>> \/ question = <<>>

\* The no-stores test never taken.
noAccessibleStoresNever(storeNames) == FALSE

\* storeNames.length === 0
noAccessibleStores(storeNames) == Len(storeNames) = 0

\* classification.stores || []  (read only when classification is not null)
predictedOf(c) == IF c.top = "obj" /\ c.storesKind # "falsy" THEN c.stores ELSE <<>>

\* classification.unanswered || []
unansweredOf(c) == IF c.top = "obj" THEN c.unanswered ELSE <<>>

\* classification.split_questions || {}
splitOf(c) == IF c.top = "obj" THEN c.split ELSE NoSplit

\* A truthy stores value that is neither an array nor iterable: it has no
\* length, so the test on line 235 lets it through and for...of throws.
notIterable(c) == c.top = "obj" /\ c.storesKind = "noniter"

\* !predictedStores || predictedStores.length === 0
noStoreSelected(c) == ~notIterable(c) /\ predictedOf(c) = <<>>

\* (splitQuestions && splitQuestions[store]) ? splitQuestions[store] : question
qForStore(splitQuestions, store, question) ==
    IF splitQuestions[store] # <<>> THEN splitQuestions[store] ELSE question

\* The fan-out started all at once (Promise.all over the stores).
fanOutAll(predictedStores, idx) == idx..Len(predictedStores)

\* The retrieval calls the loop has outstanding once it moves to position idx:
\* it awaits each call before it goes on.
fanOutIssue(predictedStores, idx) == {idx}

\* The session file created before the response goes out.
tailOrderCreateFirst(isNewSession, nLogs) ==
    (IF isNewSession THEN <<"create">> ELSE <<>>)
        \o <<"respond", "append">> \o [i \in 1..nLogs |-> "log"]

\* The provider logs written before the message is appended.
tailOrderLogsFirst(isNewSession, nLogs) ==
    <<"respond">> \o (IF isNewSession THEN <<"create">> ELSE <<>>)
                  \o [i \in 1..nLogs |-> "log"] \o <<"append">>

\* The order in which the end of the handler responds and persists:
\* res.json first, then the detached task: createSessionFile (new session),
\* appendMessageToSessionFile, one appendProviderLog per log.
tailOrder(isNewSession, nLogs) ==
    <<"respond">> \o (IF isNewSession THEN <<"create">> ELSE <<>>)
                  \o <<"append">> \o [i \in 1..nLogs |-> "log"]

\* The no-store message without its unresolvedParts.
noStoreMessagePlain(question, unanswered) ==
    Message(question, NoDepartment, <<>>, <<>>, {}, <<>>, <<>>)

\* The message of the no-store-selected branch.
noStoreMessage(question, unanswered) ==
    Message(question, NoDepartment, <<>>, <<>>, {"unresolvedParts"}, unanswered, <<>>)

\* The message of the rag-failed branch.
ragFailedMessage(question, store, searchedIn) ==
    Message(question, Apology, <<store>>, <<>>, {"searchedIn"}, <<>>, searchedIn)

\* The message of the success branch.
successMessage(question, finalAnswer, predictedStores, allGrounding) ==
    Message(question, finalAnswer, predictedStores, allGrounding, {}, <<>>, <<>>)

\* The rag-failed branch logging the apology as the store's response.
ragFailedLogsWithApology(dept, email, store, question) ==
    IF dept.accountEmail # <<>>
      THEN << [provider |-> dept.accountEmail,
               doc |-> LogDoc(dept.accountEmail, email, store, question, FALSE, Apology, <<>>)] >>
      ELSE <<>>

\* The provider log of the rag-failed branch: written only if (dept?.accountEmail).
ragFailedLogs(dept, email, store, question) ==
    IF dept.accountEmail # <<>>
      THEN << [provider |-> dept.accountEmail,
               doc |-> LogDoc(dept.accountEmail, email, store, question, TRUE, <<>>, <<>>)] >>
      ELSE <<>>

\* The success branch logging only the stores whose provider it can resolve,
\* as the rag-failed branch does.
successLogsResolvedOnly(ragResults, accessible, splitQuestions, email, question) ==
    LET resolved == SelectSeq(ragResults,
                              LAMBDA r : findDept(accessible, r.store).accountEmail # <<>>)
    IN  [i \in DOMAIN resolved |->
            LET r == resolved[i]
                providerEmail == findDept(accessible, r.store).accountEmail
            IN  [provider |-> providerEmail,
                 doc |-> LogDoc(providerEmail, email, r.store,
                                qForStore(splitQuestions, r.store, question),
                                FALSE, r.answerText, r.groundingChunks)]]

\* The provider logs of the success branch, one per entry of ragResults.
successLogs(ragResults, accessible, splitQuestions, email, question) ==
    [i \in DOMAIN ragResults |->
        LET r == ragResults[i]
            providerEmail == findDept(accessible, r.store).accountEmail
        IN  [provider |-> IF providerEmail # <<>> THEN providerEmail ELSE UnknownProvider,
             doc |-> LogDoc(providerEmail, email, r.store,
                            qForStore(splitQuestions, r.store, question),
                            FALSE, r.answerText, r.groundingChunks)]]

\* ------------------------------------------------------ control transfer
\* Where the detached task is suspended while plan is what is left to do.
pcOf(plan) ==
    IF plan = <<>> THEN "done"
    ELSE IF Head(plan) = "create" THEN "bgCreate"
    ELSE IF Head(plan) = "append" THEN "bgAppendRead"
    ELSE "bgLogRead"

\* A step inside the handler before anything is sent.
Go(r, p, q, evs) ==
    /\ pc' = [pc EXCEPT ![r] = p]
    /\ req' = [req EXCEPT ![r] = q]
    /\ hist' = [hist EXCEPT ![r] = @ \o evs]
    /\ UNCHANGED res

\* return res.status(...).json(...): respond and end, nothing detached.
Finish(r, q, body, evs) ==
    /\ pc' = [pc EXCEPT ![r] = "done"]
    /\ req' = [req EXCEPT ![r] = q]
    /\ res' = [res EXCEPT ![r] = body]
    /\ hist' = [hist EXCEPT ![r] = @ \o evs \o <<Ev("respond", 0)>>]

\* Run on with plan q.plan: res.json(q.body) is synchronous, so it happens in
\* the same step as soon as it is next in the plan; the file operations are
\* suspension points.
Proceed(r, q, evs) ==
    LET due == q.plan # <<>> /\ Head(q.plan) = "respond"
        q2 == IF due THEN [q EXCEPT !.plan = Tail(@)] ELSE q
    IN  /\ pc' = [pc EXCEPT ![r] = pcOf(q2.plan)]
        /\ req' = [req EXCEPT ![r] = q2]
        /\ res' = [res EXCEPT ![r] = IF due THEN q.body ELSE @]
        /\ hist' = [hist EXCEPT ![r] =
                       @ \o evs \o (IF due THEN <<Ev("respond", 0)>> ELSE <<>>)]

\* The failure of the detached task answered like one of the handler (the 500
\* of the outer catch), with the response already out.
AbandonWithError(r, q, evs) ==
    /\ pc' = [pc EXCEPT ![r] = "done"]
    /\ req' = [req EXCEPT ![r] = [q EXCEPT !.plan = <<>>, !.bgError = TRUE]]
    /\ hist' = [hist EXCEPT ![r] = @ \o evs \o <<Ev("respond", 0)>>]
    /\ res' = [res EXCEPT ![r] = ErrorBody(500)]

\* The catch of the detached task: log the error, drop what was left.
Abandon(r, q, evs) ==
    /\ pc' = [pc EXCEPT ![r] = "done"]
    /\ req' = [req EXCEPT ![r] = [q EXCEPT !.plan = <<>>, !.bgError = TRUE]]
    /\ hist' = [hist EXCEPT ![r] = @ \o evs]
    /\ UNCHANGED res

\* ------------------------------------------------------- POST /ask: steps
\* The session ids the responses sent so far have told their clients.
sentSessionIds ==
    {res[o].sessionId : o \in {o \in DOMAIN res : res[o].sent /\ res[o].sessionId # <<>>}}

\* Lines 193-200: destructure the body, validate, start reading the student.
\* A client sends no session id, one of its own, or one an answer gave it.
\* after: the requests that had run to their end when this one arrived.
Receive(r) ==
    /\ pc[r] = "idle"
    /\ \E email \in {<<>>, U1, U0, UX}, question \in {<<>>, Q1},
          sessionId \in {<<>>, S1} \cup sentSessionIds :
          LET q == [req[r] EXCEPT !.email = email, !.question = question,
                                  !.sessionId = sessionId,
                                  !.after = {o \in DOMAIN pc : pc[o] = "done"}]
          IN  IF invalidRequest(email, question)
                THEN Finish(r, q, ErrorBody(400), <<>>)
                ELSE Go(r, "readStudent", q, <<>>)
    /\ UNCHANGED <<sessionFiles, providerLogs, cls, fn>>

\* Lines 200-217: the student is read; 404, the no-stores answer, or go on to
\* read the university.
StudentRead(r) ==
    /\ pc[r] = "readStudent"
    /\ LET student == readStudent(req[r].email)
           accessible == student.accessibleStores
       IN  IF ~student.found
             THEN Finish(r, req[r], ErrorBody(404), <<>>)
           ELSE IF noAccessibleStores(storeNamesOf(accessible))
             THEN Finish(r, [req[r] EXCEPT !.branch = "noAccessible"],
                         Body(200, {"sessionId", "answer", "storesUsed", "grounding"},
                              <<>>, NoStoresAvailable, <<>>, <<>>, <<>>, <<>>),
                         <<>>)
           ELSE Go(r, "readUniversity", [req[r] EXCEPT !.accessible = accessible], <<>>)
    /\ UNCHANGED <<sessionFiles, providerLogs, cls, fn>>

\* Lines 217-229: the university is read (it may or may not hold a key); the
\* session id is minted if none came; classifyStores is called.
UniversityRead(r) ==
    /\ pc[r] = "readUniversity"
    /\ \E geminiKey \in BOOLEAN :
          LET isNewSession == req[r].sessionId = <<>>
              q == [req[r] EXCEPT
                       !.geminiKey = geminiKey,
                       !.isNewSession = isNewSession,
                       !.sessionId = IF isNewSession THEN mintSessionId(r) ELSE @,
                       !.sessionName = IF isNewSession
                                         THEN generateSessionName(req[r].question)
                                         ELSE <<>>]
          IN  Go(r, "classify", q, <<Ev("classify", 0)>>)
    /\ UNCHANGED <<sessionFiles, providerLogs, cls, fn>>

\* The positions among `issue` whose call is not yet made, in order.
newCalls(q, issue) ==
    SelectSeq([i \in 1..Len(q.predictedStores) |-> i],
              LAMBDA i : i \in issue /\ i > Len(q.calls))

\* Lines 276-280: the loop reaches position idx and calls RAGService.askQuestion.
IssueRag(r, q, idx) ==
    LET new == newCalls(q, fanOutIssue(q.predictedStores, idx))
        q2 == [q EXCEPT
                  !.idx = idx,
                  !.inflight = @ \cup Range(new),
                  !.calls = @ \o [k \in DOMAIN new |->
                                    [store |-> q.predictedStores[new[k]],
                                     question |-> qForStore(q.splitQuestions,
                                                            q.predictedStores[new[k]],
                                                            q.question)]]]
    IN  Go(r, "rag", q2, [k \in DOMAIN new |-> Ev("rag", new[k])])

\* Lines 229-280: classifyStores resolves; the no-store-selected branch, or the
\* first retrieval call.  A null classification or a stores value that cannot
\* be iterated throws a TypeError into the outer catch (lines 396-401).
ClassifyReturn(r) ==
    /\ pc[r] = "classify"
    /\ \E c \in ClassifyTable[req[r].geminiKey][storeNamesOf(req[r].accessible)] :
          LET q == [req[r] EXCEPT
                       !.classified = TRUE,
                       !.classification = c,
                       !.predictedStores = predictedOf(c),
                       !.splitQuestions = splitOf(c),
                       !.unanswered = unansweredOf(c)]
          IN  IF c.top = "null" \/ notIterable(c)
                THEN Finish(r, [req[r] EXCEPT !.classified = TRUE, !.classification = c,
                                             !.branch = "typeError"],
                            ErrorBody(500), <<>>)
              ELSE IF noStoreSelected(c)
                THEN Proceed(r,
                        [q EXCEPT
                            !.branch = "noStore",
                            !.body = Body(200, {"sessionId", "answer", "storesUsed", "unanswered"},
                                          q.sessionId, NoDepartment, <<>>, <<>>,
                                          q.unanswered, <<>>),
                            !.messageObj = noStoreMessage(q.question, q.unanswered),
                            !.logs = <<>>,
                            !.plan = tailOrder(q.isNewSession, 0)],
                        <<>>)
              ELSE IssueRag(r, q, 1)
    /\ UNCHANGED <<sessionFiles, providerLogs, cls, fn>>

\* Lines 280-355: a retrieval call resolves.
RagReturn(r) ==
    /\ pc[r] = "rag"
    /\ req[r].idx \in req[r].inflight
    /\ \E ragResp \in RagOutcomes :
          LET q0 == [req[r] EXCEPT !.inflight = @ \ {req[r].idx},
                                   !.outcomes = Append(@, ragResp)]
              store == q0.predictedStores[q0.idx]
              asked == qForStore(q0.splitQuestions, store, q0.question)
              dept == findDept(q0.accessible, store)
          IN  IF ragResp.kind = "throw"
                THEN Finish(r, [q0 EXCEPT !.branch = "ragThrew"], ErrorBody(500), <<>>)
              ELSE IF ragFailed(ragResp)
                THEN LET logs == ragFailedLogs(dept, q0.email, store, asked)
                     IN  Proceed(r,
                            [q0 EXCEPT
                                !.branch = "ragFailed",
                                !.body = Body(200, {"sessionId", "answer", "searchedIn"},
                                              q0.sessionId, Apology, <<>>, <<>>, <<>>,
                                              dept.accountEmail),
                                !.messageObj = ragFailedMessage(q0.question, store,
                                                                dept.accountEmail),
                                !.logs = logs,
                                !.plan = tailOrder(q0.isNewSession, Len(logs))],
                            <<>>)
              ELSE LET q1 == [q0 EXCEPT
                                 !.ragResults = Append(@, [store |-> store,
                                                           answerText |-> ragResp.text,
                                                           groundingChunks |-> ragResp.chunks]),
                                 !.allGrounding = @ \o collectGrounding(ragResp.chunks)]
                   IN  IF q1.idx < Len(q1.predictedStores)
                         THEN IssueRag(r, q1, q1.idx + 1)
                         ELSE LET finalAnswer == mergeAnswers(q1.ragResults)
                                  logs == successLogs(q1.ragResults, q1.accessible,
                                                      q1.splitQuestions, q1.email, q1.question)
                              IN  Proceed(r,
                                     [q1 EXCEPT
                                         !.branch = "success",
                                         !.body = Body(200, {"sessionId", "answer", "storesUsed", "grounding"},
                                                       q1.sessionId, finalAnswer,
                                                       q1.predictedStores, q1.allGrounding,
                                                       <<>>, <<>>),
                                         !.messageObj = successMessage(q1.question, finalAnswer,
                                                                       q1.predictedStores,
                                                                       q1.allGrounding),
                                         !.logs = logs,
                                         !.plan = tailOrder(q1.isNewSession, Len(logs))],
                                     <<>>)
    /\ UNCHANGED <<sessionFiles, providerLogs, cls, fn>>

\* ------------------------------------------- the detached persistence task
\* A write to a file can fail (disk full, permissions): every fs.writeFile
\* either takes effect or throws.

\* createSessionFile (lines 78-89): one writeFile of an empty session.
createSessionFile(files, email, sessionId, sessionName) ==
    Put(files, getSessionFile(email, sessionId),
        Session(sessionId, sessionName, email, <<>>))

BgCreate(r) ==
    /\ pc[r] = "bgCreate"
    /\ \E ok \in BOOLEAN :
          IF ok
            THEN /\ sessionFiles' = createSessionFile(sessionFiles, req[r].email,
                                                      req[r].sessionId, req[r].sessionName)
                 /\ Proceed(r, [req[r] EXCEPT !.plan = Tail(@)], <<Ev("createSession", 1)>>)
            ELSE /\ UNCHANGED sessionFiles
                 /\ Abandon(r, req[r], <<Ev("createSession", 0)>>)
    /\ UNCHANGED <<providerLogs, cls, fn>>

\* appendMessageToSessionFile, line 58: readFile + JSON.parse; a missing file
\* (event 0) throws into the catch on line 63, and so does a file that cannot
\* be read or parsed (event 2).
BgAppendRead(r) ==
    /\ pc[r] = "bgAppendRead"
    /\ LET file == getSessionFile(req[r].email, req[r].sessionId)
       IN  IF file \in DOMAIN sessionFiles
             THEN \E readable \in BOOLEAN :
                    IF readable
                      THEN Go(r, "bgAppendWrite",
                              [req[r] EXCEPT !.snapSession = sessionFiles[file]],
                              <<Ev("appendStart", 1)>>)
                      ELSE Go(r, "bgAppendCatch", req[r], <<Ev("appendStart", 2)>>)
             ELSE Go(r, "bgAppendCatch", req[r], <<Ev("appendStart", 0)>>)
    /\ UNCHANGED <<sessionFiles, providerLogs, cls, fn>>

\* The message put in front of the list instead of at its end.
appendedSessionInFront(session, messageObj) ==
    [session EXCEPT !.messages = <<messageObj>> \o @]

\* Lines 59-62: push the message onto the document that was read, write it back.
appendedSession(session, messageObj) ==
    [session EXCEPT !.messages = Append(@, messageObj)]

BgAppendWrite(r) ==
    /\ pc[r] = "bgAppendWrite"
    /\ \E ok \in BOOLEAN :
          IF ok
            THEN /\ sessionFiles' = Put(sessionFiles,
                                        getSessionFile(req[r].email, req[r].sessionId),
                                        appendedSession(req[r].snapSession, req[r].messageObj))
                 /\ Proceed(r, [req[r] EXCEPT !.plan = Tail(@)], <<Ev("appendMessage", 1)>>)
            ELSE /\ UNCHANGED sessionFiles
                 /\ Go(r, "bgAppendCatch", req[r], <<Ev("appendMessage", 0)>>)
    /\ UNCHANGED <<providerLogs, cls, fn>>

\* The document of the catch under the default name.
synthesizedSessionUnnamed(email, sessionId, messageObj) ==
    Session(sessionId, NewSessionName, email, <<messageObj>>)

\* Lines 63-74: the catch writes a new document holding only the message.
synthesizedSession(email, sessionId, messageObj) ==
    Session(sessionId, generateSessionName(messageObj.question), email, <<messageObj>>)

BgAppendCatch(r) ==
    /\ pc[r] = "bgAppendCatch"
    /\ \E ok \in BOOLEAN :
          IF ok
            THEN /\ sessionFiles' = Put(sessionFiles,
                                        getSessionFile(req[r].email, req[r].sessionId),
                                        synthesizedSession(req[r].email, req[r].sessionId,
                                                           req[r].messageObj))
                 /\ Proceed(r, [req[r] EXCEPT !.plan = Tail(@)], <<Ev("appendMessage", 1)>>)
            ELSE /\ UNCHANGED sessionFiles
                 /\ Abandon(r, req[r], <<Ev("appendMessage", 0)>>)
    /\ UNCHANGED <<providerLogs, cls, fn>>

\* appendProviderLog (lines 92-108): the path of a provider's log.
providerLogFile(providerEmail) == Sanitize(providerEmail)

\* Lines 96-102: read the list; [] if the file is missing (event 0), and []
\* as well if the read fails or what it gives is not a JSON array (event 2).
\* logged: the stores whose log append was started, in order.
BgLogRead(r) ==
    /\ pc[r] = "bgLogRead"
    /\ \E readable \in BOOLEAN :
          LET file == providerLogFile(Head(req[r].logs).provider)
              present == file \in DOMAIN providerLogs
              arr == IF readable /\ present THEN providerLogs[file] ELSE <<>>
          IN  Go(r, "bgLogWrite",
                 [req[r] EXCEPT !.snapLog = arr,
                                !.logged = Append(@, Head(req[r].logs).doc.store_name)],
                 <<Ev("logStart", IF ~present THEN 0 ELSE IF readable THEN 1 ELSE 2)>>)
    /\ UNCHANGED <<sessionFiles, providerLogs, cls, fn>>

\* appendProviderLog as one indivisible append: the entry is added to what the
\* log holds when the write takes effect, not to what was read.
BgLogWriteAtomic(r) ==
    /\ pc[r] = "bgLogWrite"
    /\ \E ok \in BOOLEAN :
          /\ IF ok
               THEN LET file == providerLogFile(Head(req[r].logs).provider)
                        arr == IF file \in DOMAIN providerLogs
                                 THEN providerLogs[file] ELSE <<>>
                    IN  providerLogs' = Put(providerLogs, file,
                                            Append(arr, Head(req[r].logs).doc))
               ELSE UNCHANGED providerLogs
          /\ Proceed(r, [req[r] EXCEPT !.plan = Tail(@), !.logs = Tail(@)],
                     <<Ev("providerLog", IF ok THEN 1 ELSE 0)>>)
    /\ UNCHANGED <<sessionFiles, cls, fn>>

\* appendProviderLog without its outer try/catch: a failed write throws into
\* the detached task, which gives up the logs that were left.
BgLogWriteThrowing(r) ==
    /\ pc[r] = "bgLogWrite"
    /\ \E ok \in BOOLEAN :
          IF ok
            THEN /\ providerLogs' = Put(providerLogs,
                                        providerLogFile(Head(req[r].logs).provider),
                                        Append(req[r].snapLog, Head(req[r].logs).doc))
                 /\ Proceed(r, [req[r] EXCEPT !.plan = Tail(@), !.logs = Tail(@)],
                            <<Ev("providerLog", 1)>>)
            ELSE /\ UNCHANGED providerLogs
                 /\ Abandon(r, req[r], <<Ev("providerLog", 0)>>)
    /\ UNCHANGED <<sessionFiles, cls, fn>>

\* Lines 103-107: push and write back; a failure is caught inside
\* appendProviderLog, so the task goes on to the next log either way.
BgLogWrite(r) ==
    /\ pc[r] = "bgLogWrite"
    /\ \E ok \in BOOLEAN :
          /\ IF ok
               THEN providerLogs' = Put(providerLogs,
                                        providerLogFile(Head(req[r].logs).provider),
                                        Append(req[r].snapLog, Head(req[r].logs).doc))
               ELSE UNCHANGED providerLogs
          /\ Proceed(r, [req[r] EXCEPT !.plan = Tail(@), !.logs = Tail(@)],
                     <<Ev("providerLog", IF ok THEN 1 ELSE 0)>>)
    /\ UNCHANGED <<sessionFiles, cls, fn>>

\* GET /session/:email/:sessionId (lines 431-440): the document in the file,
\* 404 if it cannot be read.
getSession(files, email, sessionId) ==
    LET file == getSessionFile(email, sessionId)
    IN  IF file \in DOMAIN files
          THEN [status |-> 200, data |-> files[file]]
          ELSE [status |-> 404, data |-> NoSession]

\* ------------------------------------------------------------ specification
Next ==
    \E r \in Reqs :
        \/ Receive(r)
        \/ StudentRead(r)
        \/ UniversityRead(r)
        \/ ClassifyReturn(r)
        \/ RagReturn(r)
        \/ BgCreate(r)
        \/ BgAppendRead(r)
        \/ BgAppendWrite(r)
        \/ BgAppendCatch(r)
        \/ BgLogRead(r)
        \/ BgLogWrite(r)

Spec == Init /\ [][Next]_vars

\* The event loop resumes every detached task whose file operation has
\* completed.
Background(r) ==
    \/ BgCreate(r)
    \/ BgAppendRead(r)
    \/ BgAppendWrite(r)
    \/ BgAppendCatch(r)
    \/ BgLogRead(r)
    \/ BgLogWrite(r)

FairSpec == Spec /\ \A r \in Reqs : WF_vars(Background(r))

\* ------------------------------------- classifyStores applied on its own
OfferedNonEmpty == SeqsUpTo({"adm", "lib"}, 2) \ {<<>>}

InitClassify ==
    /\ pc = [r \in Reqs |-> "idle"]
    /\ req = [r \in Reqs |-> NoReq]
    /\ res = [r \in Reqs |-> NotSent]
    /\ hist = [r \in Reqs |-> <<>>]
    /\ sessionFiles = NoFiles
    /\ providerLogs = NoFiles
    /\ cls \in {[ClsIdle EXCEPT !.geminiKey = k, !.stores = st, !.outcome = o] :
                   k \in BOOLEAN, st \in OfferedNonEmpty, o \in ServiceOutcomes}
    /\ fn = FnIdle

ClassifyApply ==
    /\ ~cls.done
    /\ cls' = [cls EXCEPT !.result = classifyStores(cls.geminiKey, cls.stores, cls.outcome),
                          !.done = TRUE]
    /\ UNCHANGED <<pc, req, res, hist, sessionFiles, providerLogs, fn>>

NextClassify == ClassifyApply

SpecClassify == InitClassify /\ [][NextClassify]_vars

\* --------------------------------------------- two requests side by side
\* Two requests of the same client, in every interleaving of their steps.  The
\* inputs are narrowed to what the races need: the account U1 asking Q1, a
\* university without a key (the classifier selects every store), a retrieval
\* that fails or answers, and a file system without faults.
Pair == {1, 2}

PairOutcomes ==
    {o \in RagOutcomes : o.kind = "fail" \/ (o.kind = "ok" /\ o.text = <<"a1">>)}

PairInputs(r) ==
    /\ pc[r] # "idle" => req[r].email = U1 /\ req[r].question = Q1
    /\ ~req[r].geminiKey
    /\ \A i \in DOMAIN req[r].outcomes : req[r].outcomes[i] \in PairOutcomes
    /\ \A i \in DOMAIN hist[r] :
          /\ hist[r][i].ev \in {"createSession", "appendMessage", "providerLog"}
                => hist[r][i].pos = 1
          /\ hist[r][i].ev \in {"logStart", "appendStart"} => hist[r][i].pos # 2

InitPair ==
    /\ pc = [r \in Pair |-> "idle"]
    /\ req = [r \in Pair |-> NoReq]
    /\ res = [r \in Pair |-> NotSent]
    /\ hist = [r \in Pair |-> <<>>]
    /\ sessionFiles \in InitialSessionFiles
    /\ providerLogs = NoFiles
    /\ cls = ClsIdle
    /\ fn = FnIdle

NextPair ==
    \E r \in Pair :
        \/ Receive(r) /\ PairInputs(r)'
        \/ StudentRead(r) /\ PairInputs(r)'
        \/ UniversityRead(r) /\ PairInputs(r)'
        \/ ClassifyReturn(r) /\ PairInputs(r)'
        \/ RagReturn(r) /\ PairInputs(r)'
        \/ BgCreate(r) /\ PairInputs(r)'
        \/ BgAppendRead(r) /\ PairInputs(r)'
        \/ BgAppendWrite(r) /\ PairInputs(r)'
        \/ BgAppendCatch(r) /\ PairInputs(r)'
        \/ BgLogRead(r) /\ PairInputs(r)'
        \/ BgLogWrite(r) /\ PairInputs(r)'

SpecPair == InitPair /\ [][NextPair]_vars

\* ------------------------------------------ GET /sessions/:email on its own
\* createdAt as a session file holds it: the ISO string toISOString gave at
\* time t (what createSessionFile and appendMessageToSessionFile write), a
\* number t (a file written by something else), or nothing.
CreatedAt(kind, t) == [kind |-> kind, t |-> t]

\* Number(createdAt || 0): an ISO date string is truthy and not numeric (NaN).
NumberOf(createdAt) ==
    IF createdAt.kind = "iso" THEN [nan |-> TRUE, v |-> 0]
    ELSE IF createdAt.kind = "num" THEN [nan |-> FALSE, v |-> createdAt.t]
    ELSE [nan |-> FALSE, v |-> 0]

\* (a, b) => (b.createdAt || 0) - (a.createdAt || 0), as sort reads it: a NaN
\* counts as +0.
compareCreatedAt(a, b) ==
    LET x == NumberOf(b.createdAt)
        y == NumberOf(a.createdAt)
    IN  IF x.nan \/ y.nan THEN 0 ELSE x.v - y.v

\* x put into the sorted list out: before the first element that has to come
\* after it, behind everything else (the sort is stable).
insertSorted(out, x) ==
    LET later == {i \in DOMAIN out : compareCreatedAt(out[i], x) > 0}
        at == IF later = {} THEN Len(out) + 1
              ELSE CHOOSE i \in later : \A j \in later : i <= j
    IN  SubSeq(out, 1, at - 1) \o <<x>> \o SubSeq(out, at, Len(out))

RECURSIVE sortSessions(_, _)
sortSessions(out, rest) ==
    IF rest = <<>> THEN out
    ELSE sortSessions(insertSorted(out, Head(rest)), Tail(rest))

\* file.startsWith(prefix)
StartsWith(s, prefix) ==
    Len(prefix) <= Len(s) /\ SubSeq(s, 1, Len(prefix)) = prefix

\* A file of the chat directory: its name and what parsing it gives (valid
\* FALSE: the file cannot be read or parsed and is skipped).
DirEntry(name, valid, sessionId, sessionName, createdAt) ==
    [name |-> name, valid |-> valid, sessionId |-> sessionId,
     sessionName |-> sessionName, createdAt |-> createdAt]

\* Lines 407-428: the files named safePrefix + "__"..., in the order readdir
\* lists them, each reduced to { sessionId, sessionName, createdAt }, sorted.
listSessions(email, dir) ==
    LET safePrefix == Sanitize(email) \o <<"_", "_">>
        mine == SelectSeq(dir, LAMBDA f : StartsWith(f.name, safePrefix) /\ f.valid)
        sessions == [i \in DOMAIN mine |->
                        [sessionId |-> mine[i].sessionId,
                         sessionName |-> mine[i].sessionName,
                         createdAt |-> mine[i].createdAt]]
    IN  sortSessions(<<>>, sessions)

\* A second session id.
S2 == <<"s", "2">>

\* Times at which sessions were created.
Times == 1..3

\* The sessions a directory can hold: of two owners, under two ids.
ListedOwners == {U1, U0}
ListedIds == {S1, S2}

\* The directories: up to three session files in any order readdir may list
\* them in, no two of a name, no two created at the same time; the createdAt
\* are all ISO strings or all numbers.
Directories ==
    UNION {
      { [i \in 1..n |->
            DirEntry(getSessionFile(who[i][1], who[i][2]), ok[i], who[i][2], Q1,
                     CreatedAt(kind, when[i]))] :
          who \in {w \in [1..n -> ListedOwners \X ListedIds] :
                      \A i, j \in 1..n : i # j => w[i] # w[j]},
          when \in {t \in [1..n -> Times] : \A i, j \in 1..n : i # j => t[i] # t[j]},
          ok \in [1..n -> BOOLEAN],
          kind \in {"iso", "num"} } : n \in 0..3 }

InitListing ==
    /\ pc = [r \in Reqs |-> "idle"]
    /\ req = [r \in Reqs |-> NoReq]
    /\ res = [r \in Reqs |-> NotSent]
    /\ hist = [r \in Reqs |-> <<>>]
    /\ sessionFiles = NoFiles
    /\ providerLogs = NoFiles
    /\ cls = ClsIdle
    /\ fn \in {[FnIdle EXCEPT !.input = [email |-> e, dir |-> d]] :
                  e \in ListedOwners, d \in Directories}

ListApply ==
    /\ ~fn.done
    /\ fn' = [fn EXCEPT !.result = listSessions(fn.input.email, fn.input.dir),
                        !.done = TRUE]
    /\ UNCHANGED <<pc, req, res, hist, sessionFiles, providerLogs, cls>>

NextListing == ListApply

SpecListing == InitListing /\ [][NextListing]_vars

\* ------------------------------------------ generateSessionName on its own
\* The words of the questions: "1", "2", ...
WordAt(i) == ToString(i)

\* A question of n words: whitespace in front (lead) and behind (trail), one
\* blank between two words, two blanks after word number wide (0: nowhere).
QuestionOf(lead, n, wide, trail) ==
    lead \o Flatten([i \in 1..n |->
                        IF i = n THEN <<WordAt(i)>>
                        ELSE IF i = wide THEN <<WordAt(i), "  ">>
                        ELSE <<WordAt(i), " ">>])
         \o trail

QuestionShapes ==
    {[lead |-> l, n |-> n, wide |-> w, trail |-> t] :
        l \in {<<>>, <<" ">>}, n \in 0..MaxWords, w \in 0..MaxWords, t \in {<<>>, <<" ">>}}

InitNaming ==
    /\ pc = [r \in Reqs |-> "idle"]
    /\ req = [r \in Reqs |-> NoReq]
    /\ res = [r \in Reqs |-> NotSent]
    /\ hist = [r \in Reqs |-> <<>>]
    /\ sessionFiles = NoFiles
    /\ providerLogs = NoFiles
    /\ cls = ClsIdle
    /\ fn \in {[FnIdle EXCEPT !.input =
                   [shape |-> s,
                    question |-> QuestionOf(s.lead, s.n, s.wide, s.trail)]] :
                  s \in {x \in QuestionShapes : x.wide < x.n \/ x.wide = 0}}

NameApply ==
    /\ ~fn.done
    /\ fn' = [fn EXCEPT !.result = generateSessionName(fn.input.question),
                        !.done = TRUE]
    /\ UNCHANGED <<pc, req, res, hist, sessionFiles, providerLogs, cls>>

NextNaming == NameApply

SpecNaming == InitNaming /\ [][NextNaming]_vars

\* --------------------------------------- the records of two owners' sessions
\* Longest email and session id of the two sessions, in characters.
MaxIdLen == 2

\* Characters of the emails: a letter, the underscore, and a character the
\* pattern of line 44 replaces ("+", as in a+b@x.com).
EmailChars == {"a", "_", "+"}

\* Characters of the session ids (req.body.sessionId, req.params.sessionId:
\* any string the client sends).
IdChars == {"s", "_"}

OwnedSessions ==
    {[email |-> e, sessionId |-> i] :
        e \in SeqsUpTo(EmailChars, MaxIdLen) \ {<<>>},
        i \in SeqsUpTo(IdChars, MaxIdLen) \ {<<>>}}

\* The store after createSessionFile(email, sessionId, name) of one session,
\* as the map of its files and as the directory readdir lists.
StoreOf(s) ==
    createSessionFile(NoFiles, s.email, s.sessionId, Q1)

DirOf(s) ==
    <<DirEntry(getSessionFile(s.email, s.sessionId), TRUE, s.sessionId, Q1,
               CreatedAt("iso", 1))>>

InitPaths ==
    /\ pc = [r \in Reqs |-> "idle"]
    /\ req = [r \in Reqs |-> NoReq]
    /\ res = [r \in Reqs |-> NotSent]
    /\ hist = [r \in Reqs |-> <<>>]
    /\ sessionFiles = NoFiles
    /\ providerLogs = NoFiles
    /\ cls = ClsIdle
    /\ fn \in {[FnIdle EXCEPT !.input = [mine |-> a, other |-> b]] :
                  a \in OwnedSessions, b \in OwnedSessions}

\* The session "other" is in the store; the owner of "mine" asks for the path
\* of their session (line 43), for their sessions (GET /sessions/:email, lines
\* 407-428) and for their session (GET /session/:email/:sessionId, 431-440).
PathApply ==
    /\ ~fn.done
    /\ fn' = [fn EXCEPT
                !.result = [mineFile  |-> getSessionFile(fn.input.mine.email,
                                                         fn.input.mine.sessionId),
                            otherFile |-> getSessionFile(fn.input.other.email,
                                                         fn.input.other.sessionId),
                            listed    |-> listSessions(fn.input.mine.email,
                                                       DirOf(fn.input.other)),
                            got       |-> getSession(StoreOf(fn.input.other),
                                                     fn.input.mine.email,
                                                     fn.input.mine.sessionId)],
                !.done = TRUE]
    /\ UNCHANGED <<pc, req, res, hist, sessionFiles, providerLogs, cls>>

NextPaths == PathApply

SpecPaths == InitPaths /\ [][NextPaths]_vars

\* ===================================================================
\* Properties
\* ===================================================================
WriteEvents == {"createSession", "appendMessage", "providerLog"}

Responded(r) == res[r].sent

\* The request was rejected by validation / by the student lookup.
Invalid(r) == pc[r] # "idle" /\ (req[r].email = <<>> \/ req[r].question = <<>>)
Unknown(r) ==
    /\ pc[r] \notin {"idle", "readStudent"}
    /\ ~Invalid(r)
    /\ ~readStudent(req[r].email).found
ZeroStores(r) ==
    /\ pc[r] \notin {"idle", "readStudent"}
    /\ ~Invalid(r)
    /\ readStudent(req[r].email).found
    /\ readStudent(req[r].email).accessibleStores = <<>>

\* The request has called neither the classifier nor the retrieval service
\* and has attempted no write.
NoEffects(r) ==
    /\ \A i \in DOMAIN hist[r] : hist[r][i].ev = "respond"
    /\ ~req[r].classified
    /\ req[r].calls = <<>>
    /\ req[r].plan = <<>>
    /\ pc[r] = "done"

\* The first position whose retrieval gave nothing usable: the call threw,
\* failed, or came back without a (non-empty) answer text.
Unusable(o) == o.kind # "ok" \/ o.text = <<>>

C2_CallsStopAtFirstUnusable ==
    \A r \in Reqs :
        \A k \in DOMAIN req[r].outcomes :
            (/\ Unusable(req[r].outcomes[k])
             /\ \A j \in 1..(k - 1) : ~Unusable(req[r].outcomes[j]))
            => /\ Len(req[r].calls) = k
               /\ \A i \in 1..k : req[r].calls[i].store = req[r].predictedStores[i]

\* C3: a request has at most one retrieval call outstanding, the calls go out
\* in classifier order, and call i+1 goes out only after call i has resolved
\* to a result the handler accepts (no throw, success flag set, data present).
C3_SequentialRetrieval ==
    \A r \in Reqs :
        /\ Cardinality(req[r].inflight) <= 1
        /\ \A i \in DOMAIN req[r].calls :
              /\ req[r].calls[i].store = req[r].predictedStores[i]
              /\ i > 1 => /\ Len(req[r].outcomes) >= i - 1
                          /\ req[r].outcomes[i - 1].kind = "ok"
                          /\ (i - 1) \notin req[r].inflight

C3_Witness ==
    \E r \in Reqs :
        /\ Len(req[r].calls) = 2
        /\ req[r].inflight = {2}
        /\ Len(req[r].outcomes) = 1

\* Whether answer is the labelled sections of stores / texts, in order.
RECURSIVE IsLabelled(_, _, _)
IsLabelled(answer, stores, texts) ==
    LET first == <<"**", stores[1], "**:\n">> \o texts[1]
    IN  IF Len(stores) = 1 THEN answer = first
        ELSE /\ Len(answer) > Len(first)
             /\ SubSeq(answer, 1, Len(first) + 1) = first \o <<"\n\n">>
             /\ IsLabelled(SubSeq(answer, Len(first) + 2, Len(answer)),
                           Tail(stores), Tail(texts))

\* Every selected store was queried and gave a non-empty answer text.
AllUsable(r) ==
    /\ Responded(r)
    /\ req[r].predictedStores # <<>>
    /\ Len(req[r].outcomes) = Len(req[r].predictedStores)
    /\ \A i \in DOMAIN req[r].outcomes : ~Unusable(req[r].outcomes[i])

\* C4: when all n selected stores give a usable answer, the response answer
\* is the raw text for n = 1, n labelled sections in classifier order for
\* n >= 2, and storesUsed is the classifier's list.
C4_MergedAnswer ==
    \A r \in Reqs :
        AllUsable(r) =>
            LET n == Len(req[r].predictedStores)
                texts == [i \in 1..n |-> req[r].outcomes[i].text]
            IN  /\ res[r].status = 200
                /\ n = 1 => res[r].answer = texts[1]
                /\ n >= 2 => IsLabelled(res[r].answer, req[r].classification.stores, texts)
                /\ res[r].storesUsed = req[r].classification.stores

C4_Witness ==
    \E r \in Reqs :
        /\ AllUsable(r)
        /\ req[r].predictedStores = <<"lib", "adm">>
        /\ res[r].answer = <<"**", "lib", "**:\n", "a2", "\n\n", "**", "adm", "**:\n", "a1">>

\* Every selected store was queried and accepted by the handler.
AllSucceeded(r) ==
    /\ Responded(r)
    /\ req[r].predictedStores # <<>>
    /\ Len(req[r].outcomes) = Len(req[r].predictedStores)
    /\ \A i \in DOMAIN req[r].outcomes : req[r].outcomes[i].kind = "ok"

RECURSIVE AllChunks(_)
AllChunks(outcomes) ==
    IF outcomes = <<>> THEN <<>> ELSE Head(outcomes).chunks \o AllChunks(Tail(outcomes))

RECURSIVE WithoutEmpty(_)
WithoutEmpty(texts) ==
    IF texts = <<>> THEN <<>>
    ELSE IF Head(texts) = "" THEN WithoutEmpty(Tail(texts))
    ELSE <<Head(texts)>> \o WithoutEmpty(Tail(texts))

\* C5 (as claimed): the grounding of an all-succeed response is every store's
\* evidence list, in store order then evidence order, nothing left out.
C5_GroundingIsEveryChunk ==
    \A r \in Reqs :
        AllSucceeded(r) => res[r].grounding = AllChunks(req[r].outcomes)

\* C5 (amended): it is the texts of the chunks that carry a non-empty
\* retrieved-context text, in store order then evidence order; chunks
\* without one are left out.
C5_GroundingIsChunkTexts ==
    \A r \in Reqs :
        AllSucceeded(r) =>
            /\ "grounding" \in res[r].fields
            /\ res[r].grounding = WithoutEmpty(AllChunks(req[r].outcomes))

C5_Witness ==
    \E r \in Reqs :
        /\ AllSucceeded(r)
        /\ res[r].grounding = <<"g3", "g1", "g2">>

\* C6: a request without e-mail or question gets 400, one whose account is
\* not found gets 404; neither reaches the classifier or the retrieval
\* service, attempts a write, or leaves anything scheduled.
C6_Rejections ==
    /\ \A r \in Reqs :
          /\ Invalid(r) => Responded(r) /\ res[r].status = 400 /\ NoEffects(r)
          /\ Unknown(r) => Responded(r) /\ res[r].status = 404 /\ NoEffects(r)
    /\ (\A r \in Reqs : pc[r] = "idle" \/ Invalid(r) \/ Unknown(r))
          => sessionFiles \in InitialSessionFiles /\ providerLogs = NoFiles

C6_Witness ==
    \E r \in Reqs :
        /\ res[r].status = 404
        /\ req[r].email = UX
        /\ req[r].sessionId = <<>>
        /\ sessionFiles = PriorFiles

\* C7: a valid request of an account without accessible stores is answered
\* with an empty storesUsed; it reaches neither the classifier nor the
\* retrieval service, attempts no write and leaves nothing scheduled.
C7_NoAccessibleStores ==
    /\ \A r \in Reqs :
          ZeroStores(r) =>
              /\ Responded(r)
              /\ res[r].status = 200
              /\ "storesUsed" \in res[r].fields
              /\ res[r].storesUsed = <<>>
              /\ res[r].answer = NoStoresAvailable
              /\ NoEffects(r)
    /\ (\A r \in Reqs : pc[r] = "idle" \/ ZeroStores(r))
          => sessionFiles \in InitialSessionFiles /\ providerLogs = NoFiles

C7_Witness ==
    \E r \in Reqs :
        /\ ZeroStores(r)
        /\ res[r].answer = NoStoresAvailable
        /\ pc[r] = "done"

\* The classification gave no store: an empty list, or no stores member.
NoStoreClassified(r) ==
    /\ req[r].classified
    /\ req[r].classification.top # "null"
    /\ req[r].classification.storesKind # "noniter"
    /\ req[r].classification.stores = <<>>

\* The session file of the request holds its no-store message.
NoStoreRecorded(r) ==
    LET file == getSessionFile(req[r].email, req[r].sessionId)
    IN  /\ file \in DOMAIN sessionFiles
        /\ \E i \in DOMAIN sessionFiles[file].messages :
              LET m == sessionFiles[file].messages[i]
              IN  /\ m.question = req[r].question
                  /\ m.answer = NoDepartment
                  /\ m.storesUsed = <<>>
                  /\ "unresolvedParts" \in m.optional
                  /\ m.unresolvedParts = req[r].classification.unanswered

NoStoreResponse(r) ==
    /\ Responded(r)
    /\ res[r].status = 200
    /\ res[r].answer = NoDepartment
    /\ res[r].storesUsed = <<>>
    /\ res[r].unanswered = req[r].classification.unanswered
    /\ res[r].sessionId = req[r].sessionId
    /\ req[r].calls = <<>>

\* C8: when the classification gives no store, the response is the fixed
\* no-department answer with the unanswered fragments and an empty
\* storesUsed, no retrieval call is made, and unless the detached task fails
\* on a write the session file comes to hold a message whose unresolvedParts
\* are those fragments.
C8_NoStoreSelected ==
    /\ [](\A r \in Reqs : NoStoreClassified(r) => NoStoreResponse(r))
    /\ \A r \in Reqs : NoStoreClassified(r) ~> (req[r].bgError \/ NoStoreRecorded(r))

C8_Witness ==
    \E r \in Reqs :
        /\ NoStoreClassified(r)
        /\ NoStoreRecorded(r)
        /\ req[r].classification.unanswered = <<Frag>>
        /\ Len(sessionFiles[getSessionFile(req[r].email, req[r].sessionId)].messages) = 2

\* C9 (as claimed): whatever the classification service does, the request is
\* answered with a valid answer, not with an internal error: a request that
\* got its classification and made no retrieval call has status 200.
C9_ClassifierNeverBreaksRequest ==
    \A r \in Reqs :
        (req[r].classified /\ Responded(r) /\ req[r].calls = <<>>) => res[r].status = 200

\* Structure extraction on raw finds nothing that parses: there is no "{",
\* no "}", or the text from the first "{" to the last "}" is not JSON.
ExtractionFails(raw) ==
    \A i, j \in DOMAIN raw :
        (/\ raw[i] = "{" /\ \A k \in 1..(i - 1) : raw[k] # "{"
         /\ raw[j] = "}" /\ \A k \in (j + 1)..Len(raw) : raw[k] # "}")
        => (i > j \/ ~JsonParses(SubSeq(raw, i, j)))

Unparseable(txt) == ~JsonParses(Trim(txt)) /\ ExtractionFails(Trim(txt))

IsAllStoresFallback(result, stores) ==
    /\ result.top = "obj"
    /\ result.storesKind = "arr"
    /\ result.stores = stores
    /\ result.split = NoSplit
    /\ result.unanswered = <<>>

ClassifiedText == cls.done /\ cls.geminiKey /\ cls.outcome.kind = "text"

\* C10 (as claimed): every raw text, the empty one included, that neither
\* parses nor yields a structure that parses gives the all-stores fallback.
C10_UnparseableGivesFallback ==
    (ClassifiedText /\ Unparseable(cls.outcome.txt))
        => IsAllStoresFallback(cls.result, cls.stores)

\* C10 (amended): every non-empty raw text that neither parses nor yields a
\* structure that parses gives the fallback of the no-credential mode (all
\* offered stores, no split questions, nothing unanswered); the empty text
\* gives an empty stores list instead.
C10_NonEmptyUnparseableGivesFallback ==
    /\ (ClassifiedText /\ cls.outcome.txt # <<>> /\ Unparseable(cls.outcome.txt))
          => /\ IsAllStoresFallback(cls.result, cls.stores)
             /\ cls.result = classifyStores(FALSE, cls.stores, cls.outcome)
    /\ (ClassifiedText /\ cls.outcome.txt = <<>>)
          => IsAllStoresFallback(cls.result, <<>>)

C10_Witness ==
    /\ ClassifiedText
    /\ cls.outcome.txt = <<"j", "{", "j", "}">>
    /\ cls.stores = <<"adm", "lib">>
    /\ cls.result.stores = <<"adm", "lib">>

\* ------------------------------------------------------------------- C11
\* appendMessageToSessionFile ran to its end for the request: its write (in
\* the try or in the catch) took effect.
Appended(r) ==
    /\ pc[r] = "done"
    /\ \E i \in DOMAIN hist[r] : hist[r][i] = Ev("appendMessage", 1)

\* Two requests that both append to the file of one existing session, which
\* neither of them creates.
AppendToSameSession(a, b) ==
    /\ a # b
    /\ ~req[a].isNewSession /\ ~req[b].isNewSession
    /\ getSessionFile(req[a].email, req[a].sessionId)
         = getSessionFile(req[b].email, req[b].sessionId)

\* C11: two requests append to the same (owner, sessionId), their reads and
\* writes interleaved in any order; once both appends are through, the
\* session's message list holds the message of each of them (at two
\* different places): no append overwrites what the other recorded.
C11_AppendsKeepBothMessages ==
    \A a, b \in DOMAIN pc :
        (AppendToSameSession(a, b) /\ Appended(a) /\ Appended(b))
            => LET msgs == sessionFiles[getSessionFile(req[a].email, req[a].sessionId)].messages
               IN  \E i, j \in DOMAIN msgs :
                      /\ i # j
                      /\ msgs[i] = req[a].messageObj
                      /\ msgs[j] = req[b].messageObj

\* ------------------------------------------------------------------- C12
\* The request made its session: createSessionFile wrote the empty document
\* under the id minted for it.
Created(r) ==
    /\ req[r].isNewSession
    /\ \E i \in DOMAIN hist[r] : hist[r][i] = Ev("createSession", 1)

\* b is a later request in the session a made: it carries a's session id and
\* arrived when a had run to its end, so their steps do not interleave.
FollowsUp(a, b) ==
    /\ a # b
    /\ Created(a) /\ Appended(a)
    /\ ~req[b].isNewSession
    /\ req[b].email = req[a].email /\ req[b].sessionId = req[a].sessionId
    /\ a \in req[b].after

\* No request but a has appended to a's session file.
AloneInSession(a) ==
    \A o \in DOMAIN pc \ {a} :
        (\E i \in DOMAIN hist[o] : hist[o][i].ev = "appendMessage")
            => getSessionFile(req[o].email, req[o].sessionId)
                 # getSessionFile(req[a].email, req[a].sessionId)

\* C12: after createSession on a fresh (owner, sessionId) and one append of M,
\* getSession returns the message list [M]; after a second append of M2 that
\* does not interleave with the first, it returns [M1, M2], every field of the
\* messages as it was appended.
C12_RoundTrip ==
    \A a \in DOMAIN pc :
        /\ (Created(a) /\ Appended(a) /\ AloneInSession(a))
              => LET got == getSession(sessionFiles, req[a].email, req[a].sessionId)
                 IN  got.status = 200 /\ got.data.messages = <<req[a].messageObj>>
        /\ \A b \in DOMAIN pc :
              (FollowsUp(a, b) /\ Appended(b))
                 => LET got == getSession(sessionFiles, req[a].email, req[a].sessionId)
                    IN  /\ got.status = 200
                        /\ got.data.messages = <<req[a].messageObj, req[b].messageObj>>

\* A follow-up whose message differs from the first one has been appended.
C12_Witness ==
    \E a, b \in DOMAIN pc :
        /\ FollowsUp(a, b) /\ Appended(b)
        /\ req[a].messageObj # req[b].messageObj

\* ------------------------------------------------------------------- C13
Happened(r, e) == \E i \in DOMAIN hist[r] : hist[r][i] = e

\* appendMessageToSessionFile found no file for the session when it read.
AppendFoundNoRecord(r) == Happened(r, Ev("appendStart", 0))

\* C13: appendMessage on an (owner, sessionId) without a record does not fail
\* (the detached task is not thrown out of, short of the write itself
\* failing); once its write is through, the session's record holds the owner,
\* the id, the name the naming rule gives the message's question, and exactly
\* the list [message].
C13_AppendWithoutRecord ==
    \A r \in Reqs :
        AppendFoundNoRecord(r) =>
            /\ req[r].bgError => Happened(r, Ev("appendMessage", 0))
            /\ Happened(r, Ev("appendMessage", 1)) =>
                  LET got == getSession(sessionFiles, req[r].email, req[r].sessionId)
                  IN  /\ got.status = 200
                      /\ got.data = Session(req[r].sessionId,
                                            generateSessionName(req[r].messageObj.question),
                                            req[r].email, <<req[r].messageObj>>)

\* The append found no record, wrote one, and the task went on to the end.
C13_Witness ==
    \E r \in Reqs :
        /\ AppendFoundNoRecord(r)
        /\ Happened(r, Ev("appendMessage", 1))
        /\ pc[r] = "done" /\ ~req[r].bgError

\* ------------------------------------------------------------------- C14
\* The entries of all provider logs, each named by its file and position.
LogEntries ==
    UNION {{<<f, i>> : i \in DOMAIN providerLogs[f]} : f \in DOMAIN providerLogs}

EntryAt(e) == providerLogs[e[1]][e[2]]

EntriesOfStore(n) == {e \in LogEntries : EntryAt(e).store_name = n}

\* The retrieval calls the request made on store n.
CallsOn(r, n) == {i \in DOMAIN req[r].calls : req[r].calls[i].store = n}

\* The failure of a file operation: a write that threw, a log that could not
\* be read.
IsFault(e) ==
    \/ e.ev \in WriteEvents /\ e.pos = 0
    \/ e.ev \in {"logStart", "appendStart"} /\ e.pos = 2

\* The request and its detached task have run to the end, no file operation
\* having failed.  (Spec serves one request: nothing interferes.)
SettledClean(r) ==
    /\ pc[r] = "done"
    /\ ~req[r].bgError
    /\ \A i \in DOMAIN hist[r] : ~IsFault(hist[r][i])

Resolvable(r, n) == findDept(req[r].accessible, n).accountEmail # <<>>

FailedStore(r) == req[r].calls[Len(req[r].calls)].store

\* C15: in the short-circuit branch every provider log entry the request
\* writes is for the store that failed and has a null response; no entry
\* with a response is written.
C15_ShortCircuitLogsOnlyFailure ==
    \A r \in Reqs :
        req[r].branch = "ragFailed"
            => \A e \in LogEntries :
                  /\ EntryAt(e).store_name = FailedStore(r)
                  /\ EntryAt(e).responseIsNull
                  /\ EntryAt(e).question = req[r].calls[Len(req[r].calls)].question
                  /\ e[1] = providerLogFile(findDept(req[r].accessible, FailedStore(r)).accountEmail)

\* A store failed after another had answered, and the failure was logged.
C15_Witness ==
    \E r \in Reqs :
        /\ req[r].branch = "ragFailed" /\ pc[r] = "done"
        /\ Len(req[r].calls) = 2
        /\ LogEntries # {}

\* ------------------------------------------------------------------- C16
\* The stores whose retrieval the request's persistence is there to log: each
\* store that answered when all did, the store that failed otherwise.
StoresToLog(r) ==
    IF req[r].branch = "success"
      THEN {req[r].calls[i].store : i \in DOMAIN req[r].calls}
      ELSE {FailedStore(r)}

\* C16: a queried store whose provider cannot be resolved from the account's
\* accessible stores is logged in the log of the "unknown" provider, whether
\* its retrieval succeeded or failed.
C16_UnresolvedLoggedAsUnknown ==
    \A r \in Reqs :
        (req[r].branch \in {"success", "ragFailed"} /\ SettledClean(r))
            => \A n \in StoresToLog(r) :
                  ~Resolvable(r, n)
                     => \E e \in EntriesOfStore(n) : e[1] = providerLogFile(UnknownProvider)

\* ------------------------------------------------------------------- C17
\* How many times an append of the request's message took effect.
AppendsDone(r) ==
    Cardinality({i \in DOMAIN hist[r] : hist[r][i] = Ev("appendMessage", 1)})

\* The request got past the check for zero accessible stores (line 203).
PastStoreCheck(r) == req[r].accessible # <<>>

\* The request's session file holds its message once, as the last one.
RecordedOnce(r) ==
    LET got == getSession(sessionFiles, req[r].email, req[r].sessionId)
        msgs == got.data.messages
    IN  /\ got.status = 200
        /\ msgs # <<>>
        /\ msgs[Len(msgs)] = req[r].messageObj
        /\ \A i \in 1..(Len(msgs) - 1) : msgs[i] # req[r].messageObj

\* C17: a request that got past the zero-accessible-stores check appends its
\* message exactly once (never twice; once when it has settled and no write
\* failed); a request rejected before that appends none and leaves the
\* session files as they were.
C17_ExactlyOneMessage ==
    \A r \in Reqs :
        /\ AppendsDone(r) <= 1
        /\ (PastStoreCheck(r) /\ SettledClean(r))
              => AppendsDone(r) = 1 /\ RecordedOnce(r)
        /\ (pc[r] = "done" /\ ~PastStoreCheck(r))
              => AppendsDone(r) = 0 /\ sessionFiles \in InitialSessionFiles

\* ------------------------------------------------------------------- C18
\* How many responses the request was sent.
Responses(r) ==
    Cardinality({i \in DOMAIN hist[r] : hist[r][i].ev = "respond"})

\* The handler has returned: the request is over or its detached task runs.
HandlerReturned(r) ==
    pc[r] \in {"done", "bgCreate", "bgAppendRead", "bgAppendWrite", "bgAppendCatch",
               "bgLogRead", "bgLogWrite"}

\* A file operation of the request's detached task failed.
BackgroundFailed(r) == \E i \in DOMAIN hist[r] : IsFault(hist[r][i])

\* C18: a request is sent at most one response, and exactly one once its
\* handler has returned; a response that was sent is never sent again or
\* changed; after a failure of a persistence step the response is the one
\* the handler built and the task has either gone on or ended in its catch.
C18_OneResponseFailuresAbsorbed ==
    /\ [](\A r \in Reqs :
             /\ Responses(r) <= 1
             /\ HandlerReturned(r) => Responses(r) = 1 /\ res[r].sent
             /\ BackgroundFailed(r)
                   => /\ HandlerReturned(r)
                      /\ res[r] = req[r].body /\ res[r].status = 200)
    /\ [][\A r \in Reqs : res[r].sent => res'[r] = res[r]]_vars

\* The detached task was given up after a failed write, the answer long sent.
C18_Witness ==
    \E r \in Reqs :
        /\ pc[r] = "done" /\ req[r].bgError
        /\ BackgroundFailed(r)
        /\ res[r].sent /\ res[r].status = 200

\* ------------------------------------------------------------------- C19
\* The log file the request's current appendProviderLog call works on.
CurrentLogFile(r) == providerLogFile(Head(req[r].logs).provider)

LastEvent(r) == hist[r][Len(hist[r])]

\* The stores the request called the retrieval service on, in call order.
CalledStores(r) == [i \in DOMAIN req[r].calls |-> req[r].calls[i].store]

\* C19: appendProviderLog never throws into the detached task: once a log
\* append was started the task is never given up.  It starts from the empty
\* list when the log file is absent or cannot be read as a list, and from the
\* stored list otherwise; its write puts that list plus the entry.  Whether
\* or not the writes fail, a request whose stores all answered goes through
\* the log append of every one of them.
C19_AuditAppendNeverThrows ==
    /\ [](\A r \in Reqs :
             /\ req[r].logged # <<>> => ~req[r].bgError
             /\ pc[r] = "bgLogWrite"
                   => req[r].snapLog = IF LastEvent(r) = Ev("logStart", 1)
                                         THEN providerLogs[CurrentLogFile(r)]
                                         ELSE <<>>
             /\ (pc[r] = "done" /\ req[r].branch = "success" /\ ~req[r].bgError)
                   => req[r].logged = CalledStores(r))
    /\ [][\A r \in Reqs :
             (pc[r] = "bgLogWrite" /\ providerLogs' # providerLogs)
                => providerLogs' = Put(providerLogs, CurrentLogFile(r),
                                       Append(req[r].snapLog, Head(req[r].logs).doc))]_vars

\* The log write of one store failed and that of a later store went through.
C19_Witness ==
    \E r \in Reqs :
        /\ pc[r] = "done" /\ req[r].branch = "success"
        /\ \E i, j \in DOMAIN hist[r] :
              /\ i < j
              /\ hist[r][i] = Ev("providerLog", 0)
              /\ hist[r][j] = Ev("providerLog", 1)
        /\ LogEntries # {}

\* ------------------------------------------------------------------- C20
\* The place of a persistence step in the program order of the detached task.
Stage(e) ==
    IF e.ev = "createSession" THEN 1
    ELSE IF e.ev \in {"appendStart", "appendMessage"} THEN 2
    ELSE IF e.ev \in {"logStart", "providerLog"} THEN 3
    ELSE 0

IsPrefix(s, t) == Len(s) <= Len(t) /\ \A i \in DOMAIN s : s[i] = t[i]

\* C20: the persistence steps of a request take effect in program order:
\* the session is created (when new) before the message append starts, the
\* append is through before the first provider log append starts, and the
\* provider log appends run one at a time (each is finished before the next
\* starts), in the order of the classifier's stores.
C20_PersistenceInProgramOrder ==
    \A r \in Reqs :
        /\ \A i, j \in DOMAIN hist[r] :
              (i < j /\ Stage(hist[r][i]) > 0 /\ Stage(hist[r][j]) > 0)
                  => Stage(hist[r][i]) <= Stage(hist[r][j])
        /\ \A j \in DOMAIN hist[r] :
              /\ hist[r][j].ev = "appendStart"
                    => /\ req[r].isNewSession
                            => \E i \in 1..(j - 1) : hist[r][i] = Ev("createSession", 1)
                       /\ \A i \in 1..(j - 1) : hist[r][i].ev # "appendStart"
              /\ hist[r][j].ev = "logStart"
                    => /\ \E i \in 1..(j - 1) : hist[r][i] = Ev("appendMessage", 1)
                       /\ hist[r][j - 1].ev \in {"appendMessage", "providerLog"}
              /\ hist[r][j].ev = "providerLog" => hist[r][j - 1].ev = "logStart"
        /\ req[r].branch = "success" => IsPrefix(req[r].logged, req[r].predictedStores)
        /\ req[r].branch = "ragFailed" => IsPrefix(req[r].logged, <<FailedStore(r)>>)

\* A new session was created, the message appended and two stores logged.
C20_Witness ==
    \E r \in Reqs :
        /\ pc[r] = "done" /\ req[r].isNewSession
        /\ Happened(r, Ev("createSession", 1))
        /\ Happened(r, Ev("appendMessage", 1))
        /\ Len(req[r].logged) = 2
        /\ req[r].logged[1] # req[r].logged[2]

\* ------------------------------------------------------------------- C21
\* The log file an entry for store n of request r goes to.
LogFileOfStore(r, n) ==
    providerLogFile(IF Resolvable(r, n)
                      THEN findDept(req[r].accessible, n).accountEmail
                      ELSE UnknownProvider)

LastLogged(r) == req[r].logged[Len(req[r].logged)]

\* The file of the request's last appendProviderLog call (snapLog is what
\* that call read).
LastLogFile(r) == LogFileOfStore(r, LastLogged(r))

\* The entry is the one request r wrote in its last appendProviderLog call.
IsLastEntryOf(entry, r) ==
    /\ entry.user_email = req[r].email
    /\ entry.store_name = LastLogged(r)
    /\ entry.responseIsNull = (req[r].branch = "ragFailed")

\* Both requests are over and their last log appends went to the same file.
LoggedToSameFile(a, b) ==
    /\ a # b
    /\ pc[a] = "done" /\ pc[b] = "done"
    /\ req[a].logged # <<>> /\ req[b].logged # <<>>
    /\ LastLogFile(a) = LastLogFile(b)

\* C21: a write of appendProviderLog puts the list its call read plus its
\* entry, whatever the log holds by then.  So two appends to one provider's
\* log that both read (the still empty log) before either wrote leave a log
\* of one entry, the last writer's, without the other's; when the second
\* read after the first wrote, the log holds both entries in that order.
C21_ProviderLogLastWriterWins ==
    /\ [](\A a, b \in DOMAIN pc :
             LoggedToSameFile(a, b) =>
                LET log == providerLogs[LastLogFile(a)]
                IN  /\ (req[a].snapLog = <<>> /\ req[b].snapLog = <<>>)
                          => /\ Len(log) = 1
                             /\ IsLastEntryOf(log[1], a) \/ IsLastEntryOf(log[1], b)
                    /\ (req[a].snapLog = <<>> /\ req[b].snapLog # <<>>)
                          => /\ Len(log) = 2
                             /\ IsLastEntryOf(log[1], a) /\ req[b].snapLog = <<log[1]>>
                             /\ IsLastEntryOf(log[2], b))
    /\ [][\A r \in DOMAIN pc :
             (pc[r] = "bgLogWrite" /\ pc'[r] # pc[r] /\ providerLogs' # providerLogs)
                => providerLogs' = Put(providerLogs, CurrentLogFile(r),
                                       Append(req[r].snapLog, Head(req[r].logs).doc))]_vars

\* Both requests read the empty log of one provider, both wrote, and the log
\* holds a single entry.
C21_Witness ==
    \E a, b \in DOMAIN pc :
        /\ LoggedToSameFile(a, b)
        /\ req[a].snapLog = <<>> /\ req[b].snapLog = <<>>
        /\ Len(providerLogs[LastLogFile(a)]) = 1

\* ------------------------------------------------------------------- C22
\* What the retrieval service resolved to is a result without a usable
\* answer: null, success false, no data, or data without answer text.
NoUsableAnswer(o) == o.kind \in {"null", "fail", "nodata"} \/ (o.kind = "ok" /\ o.text = <<>>)

\* The request was answered with the short-circuit apology for its store at
\* position i, the last one it called.
ShortCircuitedAt(r, i) ==
    /\ req[r].branch = "ragFailed"
    /\ Len(req[r].calls) = i
    /\ res[r].sent /\ res[r].status = 200 /\ res[r].answer = Apology

\* C22: a retrieval result counts as a success only if it carries a non-empty
\* answer text; every other result the service resolves to, one flagged
\* successful with an empty or missing answer text included, is a failure:
\* the request is answered with the apology and no further store is called.
C22_EmptyAnswerIsFailure ==
    \A r \in Reqs :
        \A i \in DOMAIN req[r].outcomes :
            NoUsableAnswer(req[r].outcomes[i]) => ShortCircuitedAt(r, i)

\* ------------------------------------------------------------------- C23
\* The stored sessions carry the createdAt the Conversation Store writes.
StoredByTheStore(dir) == \A i \in DOMAIN dir : dir[i].createdAt.kind = "iso"

\* C23: listSessions returns the sessions newest first: of two adjacent
\* entries of the result the first was not created before the second,
\* for sessions created at different times.
C23_NewestFirst ==
    (fn.done /\ StoredByTheStore(fn.input.dir))
        => \A i \in 1..(Len(fn.result) - 1) :
              fn.result[i].createdAt.t >= fn.result[i + 1].createdAt.t

\* ------------------------------------------------------------------- C24
\* The first k words of the question shape, one blank between two of them.
SingleSpaced(k) ==
    Flatten([i \in 1..k |-> IF i = k THEN <<WordAt(i)>> ELSE <<WordAt(i), " ">>])

\* C24 as stated: a question of at most 10 words is its own session name,
\* verbatim; a longer one is named by its first 10 words joined by single
\* spaces, followed by the ellipsis.
C24_NamingRule ==
    fn.done =>
        IF fn.input.shape.n <= 10
          THEN fn.result = fn.input.question
          ELSE fn.result = SingleSpaced(10) \o <<"...">>

\* C24 as the code has it: the name of a question of at most 10 words is the
\* question without the whitespace at its ends (what is between the words
\* stays as it is), and "New Session" for the empty question.
C24_NamingRuleTrimmed ==
    fn.done =>
        LET s == fn.input.shape
        IN  IF fn.input.question = <<>> THEN fn.result = NewSessionName
            ELSE IF s.n <= 10
              THEN fn.result = QuestionOf(<<>>, s.n, s.wide, <<>>)
              ELSE fn.result = SingleSpaced(10) \o <<"...">>

\* A short question with whitespace around it was named.
C24_Witness ==
    /\ fn.done
    /\ fn.input.shape.n = 3
    /\ fn.input.shape.lead # <<>> /\ fn.input.shape.trail # <<>>
    /\ fn.input.shape.wide = 2
    /\ fn.result = <<"1", " ", "2", "  ", "3">>

\* ------------------------------------------------------------------- C25
\* The message the request's append left as the last one of its session.
RecordedMessage(r) ==
    LET msgs == getSession(sessionFiles, req[r].email, req[r].sessionId).data.messages
    IN  msgs[Len(msgs)]

\* C25: for a request that reached the fan-out, the storesUsed of the message
\* recorded for it are the stores its retrieval calls went to, in the
\* short-circuit branch as in the all-succeed branch.
C25_StoresUsedAreStoresQueried ==
    \A r \in Reqs :
        (req[r].calls # <<>> /\ Happened(r, Ev("appendMessage", 1)))
            => /\ RecordedMessage(r) = req[r].messageObj
               /\ Range(RecordedMessage(r).storesUsed) = Range(CalledStores(r))

\* ------------------------------------------------------------------- C26
\* C26: a retrieval call that throws is handled like a retrieval that failed:
\* the request is answered with the apology naming the provider of the store
\* (status 200, not an internal error), no further store is called, and the
\* detached task that records the failed attempt is started.
C26_ThrownRetrievalIsFailure ==
    \A r \in Reqs :
        \A i \in DOMAIN req[r].outcomes :
            req[r].outcomes[i].kind = "throw"
                => /\ ShortCircuitedAt(r, i)
                   /\ res[r].searchedIn
                        = findDept(req[r].accessible, req[r].calls[i].store).accountEmail
                   /\ req[r].messageObj # NoMessage

\* ------------------------------------------------------------------- C27
\* C27: whenever the write of createSessionFile takes effect, no record
\* exists for its (owner, sessionId), in every interleaving of requests, a
\* follow-up carrying the session id of a new-session answer included: the
\* write replaces no record and erases no message.
C27_CreateNeverOverwrites ==
    [][\A r \in DOMAIN pc :
          (pc[r] = "bgCreate" /\ pc'[r] # pc[r] /\ sessionFiles' # sessionFiles)
             => getSessionFile(req[r].email, req[r].sessionId) \notin DOMAIN sessionFiles]_vars

\* ---- C28 ----
\* An append step of request r: a write of appendMessageToSessionFile (the
\* try's on line 62 or the catch's on line 73) that takes effect on a record
\* that was in the store.
AppendWrote(r) ==
    /\ pc[r] \in {"bgAppendWrite", "bgAppendCatch"}
    /\ pc'[r] # pc[r]
    /\ sessionFiles' # sessionFiles
    /\ getSessionFile(req[r].email, req[r].sessionId) \in DOMAIN sessionFiles

\* C28: the message sequence is append-only for every appendMessage call, the
\* calls that found the stored record unreadable or whose write-back failed
\* once included: the list after the call has the list before it as a prefix.
C28_AppendOnly ==
    [][\A r \in DOMAIN pc :
          AppendWrote(r)
             => LET file == getSessionFile(req[r].email, req[r].sessionId)
                IN  IsPrefix(sessionFiles[file].messages, sessionFiles'[file].messages)]_vars

\* ---- C29 ----
\* The store names the account may query: accessibleStores of the student.
AccessibleNames(r) ==
    {req[r].accessible[i].storeName : i \in DOMAIN req[r].accessible}

\* C29: every store name passed to the retrieval service is in the account's
\* accessible-store list, whatever the classifier returned.
C29_OnlyAccessibleStoresQueried ==
    \A r \in DOMAIN pc :
        \A i \in DOMAIN req[r].calls : req[r].calls[i].store \in AccessibleNames(r)

\* ---- C30 ----
\* C30: records are isolated per owner.  Two distinct (ownerEmail, sessionId)
\* pairs have distinct records, and neither the listing of an owner's sessions
\* nor the reading of one of their sessions gives a record of another owner,
\* whatever characters the emails and ids are made of.
C30_PerOwnerIsolation ==
    fn.done =>
      LET mine == fn.input.mine
          other == fn.input.other
      IN  /\ mine # other => fn.result.mineFile # fn.result.otherFile
          /\ mine.email # other.email
                => /\ fn.result.listed = <<>>
                   /\ fn.result.got.status = 404

====
